---- MODULE Spec2Model ----
(***************************************************************************)
(* KF-Database (src/src/index.ts): class Base, a key-value store over one  *)
(* sqlite table with an optional in-memory Map mirror and lodash           *)
(* path access (_.get, _.set, _.unset) into the stored JSON values.        *)
(*                                                                         *)
(* Two instances are run side by side on the same sequence of calls: one   *)
(* constructed with inMemory left on (this.map present) and one with       *)
(* inMemory: false (this.map absent).  Every method is modelled once, as   *)
(* in the source, branching on the presence of the map.                    *)
(***************************************************************************)
EXTENDS Integers, Sequences, FiniteSets, TLC

\* Longest sequence of calls explored.
MaxCalls == 2

(***************************************************************************)
(* JavaScript values.  Every value is a record of the same four fields so  *)
(* that any two values can be compared:                                    *)
(*   t  the type: "undef", "null", "bool", "num", "str", "arr", "obj"      *)
(*   n  the number (num), 0/1 (bool), the length (arr)                     *)
(*   s  the characters (str)                                               *)
(*   c  the own properties (arr, obj): property name -> value.  An array   *)
(*      keeps its elements under the names "0", "1", ...; an index below   *)
(*      the length that is no property is a hole.                          *)
(***************************************************************************)
NoProps == [k \in {} |-> 0]
Undef == [t |-> "undef", n |-> 0, s |-> <<>>, c |-> NoProps]
Null == [t |-> "null", n |-> 0, s |-> <<>>, c |-> NoProps]
Bool(b) == [t |-> "bool", n |-> IF b THEN 1 ELSE 0, s |-> <<>>, c |-> NoProps]
Num(i) == [t |-> "num", n |-> i, s |-> <<>>, c |-> NoProps]
Str(chars) == [t |-> "str", n |-> 0, s |-> chars, c |-> NoProps]
Arr(len, props) == [t |-> "arr", n |-> len, s |-> <<>>, c |-> props]
Obj(props) == [t |-> "obj", n |-> 0, s |-> <<>>, c |-> props]
EmptyObj == Obj(NoProps)
EmptyArr == Arr(0, NoProps)

\* value === null || value === undefined (lodash isNil, `== null`)
IsNil(v) == v.t \in {"undef", "null"}
\* lodash isObject: arrays and objects
IsObject(v) == v.t \in {"arr", "obj"}
\* JavaScript truthiness, as tested by `if (possibleValue)` and `if (data)`
Truthy(v) ==
  CASE v.t \in {"undef", "null"} -> FALSE
    [] v.t = "bool" -> v.n = 1
    [] v.t = "num" -> v.n # 0
    [] v.t = "str" -> Len(v.s) > 0
    [] OTHER -> TRUE

\* The decimal text of the small numbers used as array indices and numeric keys.
Digits == <<"0", "1", "2", "3", "4", "5">>
IndexNames == {Digits[i] : i \in 1..Len(Digits)}
\* lodash isIndex (reIsUint) on a path token
IsIndex(name) == name \in IndexNames
IndexOf(name) == (CHOOSE i \in 1..Len(Digits) : Digits[i] = name) - 1
NameOfIndex(i) == Digits[i + 1]
\* Number.prototype.toString, as the characters of the text
NumberToString(i) == <<Digits[i + 1]>>

Max(a, b) == IF a >= b THEN a ELSE b

\* object[key] on a non-nil value
PropGet(v, name) ==
  CASE IsObject(v) /\ name \in DOMAIN v.c -> v.c[name]
    [] v.t = "arr" /\ name = "length" -> Num(v.n)
    [] v.t = "str" /\ name = "length" -> Num(Len(v.s))
    [] v.t = "str" /\ IsIndex(name) /\ IndexOf(name) < Len(v.s) ->
         Str(<<v.s[IndexOf(name) + 1]>>)
    [] OTHER -> Undef

\* lodash baseGet: walk while the node is not nil
RECURSIVE BaseGet(_, _)
BaseGet(v, path) ==
  IF path = <<>> THEN v
  ELSE IF IsNil(v) THEN Undef
  ELSE BaseGet(PropGet(v, Head(path)), Tail(path))

\* lodash _.get(object, path), path a non-empty sequence of tokens
LodashGet(v, path) == IF IsNil(v) THEN Undef ELSE BaseGet(v, path)

\* object[key] = value on an array or an object (lodash assignValue)
AssignValue(v, name, value) ==
  [v EXCEPT !.c = [k \in DOMAIN v.c \cup {name} |-> IF k = name THEN value ELSE v.c[k]],
            !.n = IF v.t = "arr" /\ IsIndex(name) THEN Max(v.n, IndexOf(name) + 1) ELSE v.n]

\* baseSet as it would be if every intermediate node were made anew, a
\* container already there included
RECURSIVE BaseSetWalkAnew(_, _, _)
BaseSetWalkAnew(nested, path, value) ==
  IF Len(path) = 1 THEN AssignValue(nested, Head(path), value)
  ELSE AssignValue(nested, Head(path),
                   BaseSetWalkAnew(IF IsIndex(path[2]) THEN EmptyArr ELSE EmptyObj,
                                   Tail(path), value))

\* baseSet as it would be if every node it makes were an object, whatever
\* the next token
RECURSIVE BaseSetWalkObjects(_, _, _)
BaseSetWalkObjects(nested, path, value) ==
  IF Len(path) = 1 THEN AssignValue(nested, Head(path), value)
  ELSE LET objValue == PropGet(nested, Head(path))
           newValue == IF IsObject(objValue) THEN objValue ELSE EmptyObj
       IN AssignValue(nested, Head(path), BaseSetWalkObjects(newValue, Tail(path), value))

\* lodash baseSet below the root: an intermediate node that is no object is
\* replaced by [] when the next token is an index and by {} otherwise
RECURSIVE BaseSetWalk(_, _, _)
BaseSetWalk(nested, path, value) ==
  IF Len(path) = 1 THEN AssignValue(nested, Head(path), value)
  ELSE LET objValue == PropGet(nested, Head(path))
           newValue == IF IsObject(objValue) THEN objValue
                       ELSE IF IsIndex(path[2]) THEN EmptyArr ELSE EmptyObj
       IN AssignValue(nested, Head(path), BaseSetWalk(newValue, Tail(path), value))

\* lodash baseSet: a root that is no object is returned untouched
BaseSet(v, path, value) == IF ~IsObject(v) THEN v ELSE BaseSetWalk(v, path, value)

\* lodash _.set(object, path, value): the object after the call
LodashSet(v, path, value) == IF IsNil(v) THEN v ELSE BaseSet(v, path, value)

\* `delete object[key]`: the object afterwards
DeleteProp(v, name) ==
  IF IsObject(v) THEN [v EXCEPT !.c = [k \in DOMAIN v.c \ {name} |-> v.c[k]]] ELSE v

\* `delete object[key]`: what the operator returns (false for a property
\* that cannot be deleted: the length of an array, a character or the
\* length of a text)
DeleteReturns(v, name) ==
  CASE v.t = "arr" -> name # "length"
    [] v.t = "str" -> ~(name = "length" \/ (IsIndex(name) /\ IndexOf(name) < Len(v.s)))
    [] OTHER -> TRUE

Front(path) == SubSeq(path, 1, Len(path) - 1)
Last(path) == path[Len(path)]

\* lodash parent(object, path)
Parent(v, path) == IF Len(path) < 2 THEN v ELSE BaseGet(v, Front(path))

\* lodash _.unset(object, path): its return value
LodashUnsetReturns(v, path) ==
  IF IsNil(v) THEN TRUE
  ELSE LET p == Parent(v, path)
       IN IsNil(p) \/ DeleteReturns(p, Last(path))

\* lodash _.unset(object, path): the object after the call (the parent, when
\* it is an array or an object, loses the property; an array keeps its length)
RECURSIVE UnsetWalk(_, _)
UnsetWalk(v, path) ==
  IF ~IsObject(v) THEN v
  ELSE IF Len(path) = 1 THEN DeleteProp(v, Head(path))
  ELSE IF Head(path) \in DOMAIN v.c
       THEN [v EXCEPT !.c[Head(path)] = UnsetWalk(v.c[Head(path)], Tail(path))]
       ELSE v
LodashUnset(v, path) == UnsetWalk(v, path)

(***************************************************************************)
(* JSON.  The text of a row is kept as the tree the text denotes: what     *)
(* JSON.stringify writes of a value (a hole or an undefined element of an  *)
(* array becomes null, a named property of an array and an undefined       *)
(* member of an object are left out).  JSON.stringify(undefined) is        *)
(* undefined, which better-sqlite3 binds as SQL NULL.                      *)
(***************************************************************************)
SqlNull == [t |-> "sqlnull", n |-> 0, s |-> <<>>, c |-> NoProps]

RECURSIVE StringifyNode(_)
StringifyNode(v) ==
  CASE v.t = "arr" ->
         Arr(v.n, [k \in {NameOfIndex(i) : i \in 0..(v.n - 1)} |->
                     IF k \in DOMAIN v.c /\ v.c[k].t # "undef"
                     THEN StringifyNode(v.c[k]) ELSE Null])
    [] v.t = "obj" ->
         Obj([k \in {x \in DOMAIN v.c : v.c[x].t # "undef"} |-> StringifyNode(v.c[k])])
    [] OTHER -> v

\* JSON.stringify(value), as bound to the statement's parameter
JsonStringify(v) == IF v.t = "undef" THEN SqlNull ELSE StringifyNode(v)

\* JSON.parse(row.value); JSON.parse(null) is null
JsonParse(text) == IF text.t = "sqlnull" THEN Null ELSE text

(***************************************************************************)
(* An instance of Base: hasMap tells whether this.map exists; map is the   *)
(* Map (key -> value); db is the table (key -> text of the value).         *)
(* The Map holds references: alias is the set of pairs of keys whose       *)
(* entries in the Map are one and the same object, so that a change made   *)
(* in place through one key shows under the other.                         *)
(***************************************************************************)
NoEntries == [k \in {} |-> Undef]
NoKey == <<>>

Unlink(alias, key) == {p \in alias : p[1] # key /\ p[2] # key}
Link(alias, key, other) ==
  LET group == {other} \cup {p[2] : p \in {q \in alias : q[1] = other}}
  IN alias \cup {<<key, g>> : g \in group} \cup {<<g, key>> : g \in group}

\* Every key of the Map that holds the object stored at `key`
Holders(inst, key) == {key} \cup {p[2] : p \in {q \in inst.alias : q[1] = key}}

\* A change made in place to the object the Map holds at `key`
MutateInPlace(inst, key, value) ==
  IF inst.hasMap /\ key \in DOMAIN inst.map /\ IsObject(inst.map[key])
  THEN [inst EXCEPT !.map = [k \in DOMAIN inst.map |->
                               IF k \in Holders(inst, key) THEN value ELSE inst.map[k]]]
  ELSE inst

\* key.toString() as it would be if it kept the entries of number keys
\* apart from those of text keys
KeyToStringApart(keyIn) ==
  IF keyIn.t = "num" THEN <<"#">> \o NumberToString(keyIn.n) ELSE keyIn.s

\* key.toString() for a number key; a text key is its own characters
KeyToString(keyIn) == IF keyIn.t = "num" THEN NumberToString(keyIn.n) ELSE keyIn.s

\* The constructor on a table without rows, with and without options.inMemory
NewInstance(inMemory) ==
  [hasMap |-> inMemory, map |-> NoEntries, alias |-> {}, db |-> NoEntries]

\* Base.fetchEverything: a new Map holding JSON.parse of every row
FetchEverything(inst) ==
  [inst EXCEPT !.hasMap = TRUE,
               !.map = [k \in DOMAIN inst.db |-> JsonParse(inst.db[k])],
               !.alias = {}]

\* The constructor over the table as it stands (the process is started again)
Construct(inst) ==
  IF inst.hasMap THEN FetchEverything(inst) ELSE inst

\* Base.getValueObjectAtKey
GetValueObjectAtKey(inst, key) ==
  IF inst.hasMap
  THEN IF key \in DOMAIN inst.map THEN inst.map[key] ELSE Undef
  ELSE IF key \in DOMAIN inst.db THEN JsonParse(inst.db[key]) ELSE Undef

\* The statement of getValueObjectAtKey is given a key that better-sqlite3
\* does not bind (it binds numbers, texts, bigints, buffers and null; null
\* and undefined are bound as NULL): run throws a TypeError.  With a Map
\* the statement is not reached.
GetThrows(inst, keyIn) == ~inst.hasMap /\ keyIn.t = "bool"

\* Base.get: path is NoPath when the caller gives none.  Called with a
\* boolean key only where GetThrows is false: this.map.get(true) is
\* undefined, the Map having text keys only.
NoPath == <<>>
Get(inst, keyIn, path) ==
  IF IsNil(keyIn) THEN Null
  ELSE IF keyIn.t = "bool" THEN Undef
  ELSE LET valueObject == GetValueObjectAtKey(inst, KeyToString(keyIn))
       IN IF path # NoPath THEN LodashGet(valueObject, path) ELSE valueObject

\* What a method hands back: the instance afterwards, the value returned and
\* the error thrown ("none" when it returns)
Outcome(inst, ret, err) == [inst |-> inst, ret |-> ret, err |-> err]

\* INSERT OR REPLACE INTO name (key, value) VALUES (?, ?)
InsertOrReplace(db, key, text) ==
  [k \in DOMAIN db \cup {key} |-> IF k = key THEN text ELSE db[k]]

\* set as it would be without its last statement: the Map is left as it was
MapSetForgotten(inst, key, valueObject, from) == inst

\* this.map?.set(key, valueObject); `from` names the key under which the Map
\* already holds this very object (NoKey for an object the Map does not hold)
MapSet(inst, key, valueObject, from) ==
  IF ~inst.hasMap THEN inst
  ELSE [inst EXCEPT
          !.map = [k \in DOMAIN inst.map \cup {key} |->
                     IF k = key THEN valueObject ELSE inst.map[k]],
          !.alias = IF from = key THEN inst.alias
                    ELSE IF from # NoKey /\ IsObject(valueObject)
                         THEN Link(Unlink(inst.alias, key), key, from)
                         ELSE Unlink(inst.alias, key)]

\* set as it would be with the test of the key made after the writes: the
\* row and the Map entry are written under the text of the key, then the
\* error is thrown
SetChecksKeyLast(inst, keyIn, value, path, from) ==
  LET key == IF keyIn.t = "num" THEN NumberToString(keyIn.n) ELSE keyIn.s
      written == [inst EXCEPT !.db = InsertOrReplace(inst.db, key, JsonStringify(value))]
  IN Outcome(MapSet(written, key, value, NoKey), Undef,
             IF keyIn.t \notin {"str", "num"} THEN "invalid-key" ELSE "none")

\* Base.set
Set(inst, keyIn, value, path, from) ==
  IF keyIn.t \notin {"str", "num"}
  THEN Outcome(inst, Undef, "invalid-key")
  ELSE LET key == KeyToString(keyIn)
           current == GetValueObjectAtKey(inst, key)
           valueObject ==
             IF path # NoPath
             THEN LodashSet(IF IsNil(current) THEN EmptyObj ELSE current, path, value)
             ELSE value
           \* _.set changes the object in place: every key holding it sees it
           touched == IF path # NoPath THEN MutateInPlace(inst, key, valueObject) ELSE inst
           written == [touched EXCEPT
                         !.db = InsertOrReplace(touched.db, key, JsonStringify(valueObject))]
           origin == IF path # NoPath
                     THEN IF IsObject(current) THEN key ELSE NoKey
                     ELSE from
       IN Outcome(MapSet(written, key, valueObject, origin), Undef, "none")

\* Base.set when run() of its INSERT OR REPLACE throws (disk full, table
\* locked, ...): what came before the statement is done, the row is not
\* written and this.map?.set is not reached
SetFailing(inst, keyIn, value, path) ==
  IF keyIn.t \notin {"str", "num"}
  THEN Outcome(inst, Undef, "invalid-key")
  ELSE LET key == KeyToString(keyIn)
           current == GetValueObjectAtKey(inst, key)
           valueObject ==
             IF path # NoPath
             THEN LodashSet(IF IsNil(current) THEN EmptyObj ELSE current, path, value)
             ELSE value
           touched == IF path # NoPath THEN MutateInPlace(inst, key, valueObject) ELSE inst
       IN Outcome(touched, Undef, "storage-failure")

\* ensure as it would be without its first statement: a default that is
\* null or undefined is written like any other
EnsureAnyDefault(inst, keyIn, defaultValue, path) ==
  LET possibleValue == Get(inst, keyIn, path)
  IN IF Truthy(possibleValue) THEN Outcome(inst, possibleValue, "none")
     ELSE LET done == Set(inst, keyIn, defaultValue, path, NoKey)
          IN IF done.err # "none" THEN done
             ELSE Outcome(done.inst, defaultValue, "none")

\* Base.ensure
Ensure(inst, keyIn, defaultValue, path) ==
  IF IsNil(defaultValue) THEN Outcome(inst, Undef, "missing-default")
  ELSE IF GetThrows(inst, keyIn) THEN Outcome(inst, Undef, "bind-error")
  ELSE LET possibleValue == Get(inst, keyIn, path)
       IN IF Truthy(possibleValue) THEN Outcome(inst, possibleValue, "none")
          ELSE LET done == Set(inst, keyIn, defaultValue, path, NoKey)
               IN IF done.err # "none" THEN done
                  ELSE Outcome(done.inst, defaultValue, "none")

(***************************************************************************)
(* The earlier ensure (src/unnamed/part_000), which with a path first      *)
(* calls itself as ensure(key, {}) to have a container at the key.  Its    *)
(* get and set are those above on an instance with a Map.                  *)
(***************************************************************************)
\* ensure without a path: the last three statements of the earlier ensure
EnsureNoPath(inst, keyIn, defaultValue) ==
  IF IsNil(defaultValue) THEN Outcome(inst, Undef, "missing-default")
  ELSE IF Truthy(Get(inst, keyIn, NoPath))
       THEN Outcome(inst, Get(inst, keyIn, NoPath), "none")
       ELSE LET done == Set(inst, keyIn, defaultValue, NoPath, NoKey)
            IN IF done.err # "none" THEN done
               ELSE Outcome(done.inst, defaultValue, "none")

\* The statements of the earlier ensure that follow this.ensure(key, {}),
\* on the instance that call has left
EnsureAtPath(rooted, keyIn, defaultValue, path) ==
  IF Truthy(Get(rooted, keyIn, path))
  THEN Outcome(rooted, Get(rooted, keyIn, path), "none")
  ELSE LET done == Set(rooted, keyIn, defaultValue, path, NoKey)
       IN IF done.err # "none" THEN done
          ELSE Outcome(done.inst, defaultValue, "none")

\* The earlier ensure
EnsureRecursive(inst, keyIn, defaultValue, path) ==
  IF IsNil(defaultValue) THEN Outcome(inst, Undef, "missing-default")
  ELSE IF path # NoPath
       THEN LET first == EnsureNoPath(inst, keyIn, EmptyObj)
            IN IF first.err # "none" THEN first
               ELSE EnsureAtPath(first.inst, keyIn, defaultValue, path)
       ELSE EnsureNoPath(inst, keyIn, defaultValue)

\* DELETE FROM name WHERE key = ?
DeleteRow(db, key) == [k \in DOMAIN db \ {key} |-> db[k]]

\* Base.delete
Delete(inst, keyIn, path) ==
  LET keyArg == IF keyIn.t = "num" THEN Str(NumberToString(keyIn.n)) ELSE keyIn
      data == Get(inst, keyArg, NoPath)
  IN IF GetThrows(inst, keyIn) THEN Outcome(inst, Undef, "bind-error")
     ELSE IF path # NoPath
     THEN LET hasDeletedSomething == LodashUnsetReturns(data, path)
              after == LodashUnset(data, path)
              \* _.unset changes the object in place before set is called
              touched == IF keyArg.t = "str"
                         THEN MutateInPlace(inst, keyArg.s, after) ELSE inst
              from == IF keyArg.t = "str" /\ inst.hasMap THEN keyArg.s ELSE NoKey
              done == Set(touched, keyArg, after, NoPath, from)
          IN IF done.err # "none" THEN done
             ELSE Outcome(done.inst, Bool(hasDeletedSomething), "none")
     \* this.map?.delete and DELETE ... WHERE key = ? with a key that is no
     \* text: a boolean is not bound, null and undefined match no row
     ELSE IF keyArg.t = "bool" THEN Outcome(inst, Undef, "bind-error")
     ELSE IF IsNil(keyArg) THEN Outcome(inst, Bool(FALSE), "none")
     ELSE LET key == KeyToString(keyArg)
              gone == [inst EXCEPT
                         !.map = IF inst.hasMap
                                 THEN [k \in DOMAIN inst.map \ {key} |-> inst.map[k]]
                                 ELSE inst.map,
                         !.alias = Unlink(inst.alias, key),
                         !.db = DeleteRow(inst.db, key)]
          IN Outcome(gone, Bool(Truthy(data)), "none")

\* Base.delete when run() of the statement it reaches throws: with a path
\* the INSERT OR REPLACE of the set it calls, without one its DELETE, which
\* comes after this.map?.delete(key)
DeleteFailing(inst, keyIn, path) ==
  LET keyArg == IF keyIn.t = "num" THEN Str(NumberToString(keyIn.n)) ELSE keyIn
      data == Get(inst, keyArg, NoPath)
  IN IF GetThrows(inst, keyIn) THEN Outcome(inst, Undef, "bind-error")
     ELSE IF path # NoPath
     THEN LET after == LodashUnset(data, path)
              touched == IF keyArg.t = "str"
                         THEN MutateInPlace(inst, keyArg.s, after) ELSE inst
          IN SetFailing(touched, keyArg, after, NoPath)
     ELSE IF keyArg.t # "str" THEN Outcome(inst, Undef, "storage-failure")
     ELSE LET key == KeyToString(keyArg)
              gone == [inst EXCEPT
                         !.map = IF inst.hasMap
                                 THEN [k \in DOMAIN inst.map \ {key} |-> inst.map[k]]
                                 ELSE inst.map,
                         !.alias = Unlink(inst.alias, key)]
          IN Outcome(gone, Undef, "storage-failure")

\* deleteAll as it would be without this.map?.clear(): only the rows go
DeleteAllRowsOnly(inst) ==
  Outcome([inst EXCEPT !.db = NoEntries], Undef, "none")

\* Base.deleteAll
DeleteAll(inst) ==
  Outcome([inst EXCEPT !.db = NoEntries, !.map = NoEntries, !.alias = {}], Undef, "none")

\* Base.indices, as the set of keys it lists
Indices(inst) == IF inst.hasMap THEN DOMAIN inst.map ELSE DOMAIN inst.db

(***************************************************************************)
(* The calls a client makes.                                               *)
(***************************************************************************)
\* Keys given by the caller: a text key, a number key and the text of that
\* number
KeyInputs == {Str(<<"k">>), Num(1), Str(<<"1">>)}
\* Paths given by the caller, as the tokens lodash splits the text into
Paths == {<<"a">>, <<"0">>, <<"a", "0">>, <<"a", "1">>}
\* Values stored whole: one of each kind, the falsy ones included
Values ==
  {Null, Bool(FALSE), Num(0), Str(<<>>), Str(<<"x">>),
   Arr(1, ("0" :> Str(<<"x">>))), Obj(("a" :> Num(1)))}
\* Values written at a path
Leaves == {Num(0), Str(<<"y">>)}
\* Defaults given to ensure
Defaults == {Num(1), Str(<<"z">>)}
\* What ensure is given when no default is given: null, undefined
NoDefaults == {Null, Undef}
\* Keys that are neither text nor number: null, undefined, true
BadKeys == {Null, Undef, Bool(TRUE)}
\* The keys null and undefined
NilKeys == {Null, Undef}
\* Paths given in the calls made with such a key
BadKeyPaths == {NoPath, <<"a">>}

\* Paths given in the calls made while the storage engine fails
FailingPaths == {<<"a">>, <<"0">>}

\* The tables the instances are constructed over: one without rows, and one
\* in which an earlier process has stored a mapping under 'k'
Tables == {NoEntries, (<<"k">> :> JsonStringify(Obj(("a" :> Num(1)))))}

VARIABLES
  mirrored,  \* the instance constructed with inMemory on
  direct,    \* the instance constructed with inMemory: false
  pre,       \* both instances as they were before the last call
  last,      \* the last call and what it returned or threw in each instance
  variant,   \* what the earlier ensure does of the last call, when that is
             \* an ensure given a key and a default
  calls      \* the number of calls made

vars == <<mirrored, direct, pre, last, variant, calls>>

\* The earlier ensure given the call, on each instance as it stands
Variant(keyIn, defaultValue, path) ==
  [m |-> EnsureRecursive(mirrored, keyIn, defaultValue, path),
   d |-> EnsureRecursive(direct, keyIn, defaultValue, path)]
\* No call of the earlier ensure
NoVariant ==
  [m |-> Outcome(NewInstance(TRUE), Undef, "none"),
   d |-> Outcome(NewInstance(FALSE), Undef, "none")]

Call(op, keyIn, path, value, m, d, idxM, idxD) ==
  [op |-> op, key |-> keyIn, path |-> path, value |-> value,
   retM |-> m.ret, errM |-> m.err, retD |-> d.ret, errD |-> d.err,
   idxM |-> idxM, idxD |-> idxD]

\* The constructor, over a table as an earlier process has left it
Init ==
  /\ \E rows \in Tables :
       /\ mirrored = Construct([NewInstance(TRUE) EXCEPT !.db = rows])
       /\ direct = Construct([NewInstance(FALSE) EXCEPT !.db = rows])
  /\ pre = [mirrored |-> mirrored, direct |-> direct]
  /\ last = Call("new", Undef, NoPath, Undef,
                 Outcome(mirrored, Undef, "none"), Outcome(direct, Undef, "none"), {}, {})
  /\ variant = NoVariant
  /\ calls = 0

\* Both instances take the same call
Taken(op, keyIn, path, value, m, d, idxM, idxD) ==
  /\ calls < MaxCalls
  /\ calls' = calls + 1
  /\ pre' = [mirrored |-> mirrored, direct |-> direct]
  /\ mirrored' = m.inst
  /\ direct' = d.inst
  /\ last' = Call(op, keyIn, path, value, m, d, idxM, idxD)

Step(op, keyIn, path, value, m, d, idxM, idxD) ==
  /\ Taken(op, keyIn, path, value, m, d, idxM, idxD)
  /\ variant' = NoVariant

CallGet ==
  \E keyIn \in KeyInputs, path \in Paths \cup {NoPath} :
    Step("get", keyIn, path, Undef,
         Outcome(mirrored, Get(mirrored, keyIn, path), "none"),
         Outcome(direct, Get(direct, keyIn, path), "none"), {}, {})

\* get called with the key null or undefined
CallGetNoKey ==
  \E keyIn \in NilKeys, path \in BadKeyPaths :
    Step("get", keyIn, path, Undef,
         Outcome(mirrored, Get(mirrored, keyIn, path), "none"),
         Outcome(direct, Get(direct, keyIn, path), "none"), {}, {})

CallSet ==
  \E keyIn \in KeyInputs :
    \/ \E value \in Values :
         Step("set", keyIn, NoPath, value,
              Set(mirrored, keyIn, value, NoPath, NoKey),
              Set(direct, keyIn, value, NoPath, NoKey), {}, {})
    \/ \E value \in Leaves, path \in Paths :
         Step("set", keyIn, path, value,
              Set(mirrored, keyIn, value, path, NoKey),
              Set(direct, keyIn, value, path, NoKey), {}, {})

\* set(key, get(other)): the value handed to set is what get returned, which
\* in the instance with a Map is the very object the Map holds at `other`
CallSetGot ==
  \E keyIn \in KeyInputs, other \in KeyInputs :
    /\ KeyToString(keyIn) # KeyToString(other)
    /\ Get(mirrored, other, NoPath).t # "undef"
    /\ Get(direct, other, NoPath).t # "undef"
    /\ Step("setgot", keyIn, NoPath, Get(direct, other, NoPath),
            Set(mirrored, keyIn, Get(mirrored, other, NoPath), NoPath, KeyToString(other)),
            Set(direct, keyIn, Get(direct, other, NoPath), NoPath, NoKey), {}, {})

\* ensure, and beside it the earlier ensure given the same call
CallEnsure ==
  \E keyIn \in KeyInputs, defaultValue \in Defaults, path \in Paths \cup {NoPath} :
    /\ Taken("ensure", keyIn, path, defaultValue,
             Ensure(mirrored, keyIn, defaultValue, path),
             Ensure(direct, keyIn, defaultValue, path), {}, {})
    /\ variant' = Variant(keyIn, defaultValue, path)

CallDelete ==
  \E keyIn \in KeyInputs, path \in Paths \cup {NoPath} :
    Step("delete", keyIn, path, Undef,
         Delete(mirrored, keyIn, path), Delete(direct, keyIn, path), {}, {})

\* set, ensure and delete called with a key that is neither text nor number
CallSetBadKey ==
  \E keyIn \in BadKeys, path \in BadKeyPaths :
    Step("set", keyIn, path, Str(<<"x">>),
         Set(mirrored, keyIn, Str(<<"x">>), path, NoKey),
         Set(direct, keyIn, Str(<<"x">>), path, NoKey), {}, {})

CallEnsureBadKey ==
  \E keyIn \in BadKeys, path \in BadKeyPaths :
    Step("ensure", keyIn, path, Str(<<"z">>),
         Ensure(mirrored, keyIn, Str(<<"z">>), path),
         Ensure(direct, keyIn, Str(<<"z">>), path), {}, {})

CallDeleteBadKey ==
  \E keyIn \in BadKeys, path \in BadKeyPaths :
    Step("delete", keyIn, path, Undef,
         Delete(mirrored, keyIn, path), Delete(direct, keyIn, path), {}, {})

\* ensure called without a default
CallEnsureNoDefault ==
  \E keyIn \in KeyInputs, defaultValue \in NoDefaults, path \in BadKeyPaths :
    Step("ensure", keyIn, path, defaultValue,
         Ensure(mirrored, keyIn, defaultValue, path),
         Ensure(direct, keyIn, defaultValue, path), {}, {})

\* set and delete while the storage engine fails: the statement throws
CallSetFailing ==
  \E keyIn \in KeyInputs :
    \/ Step("set failing", keyIn, NoPath, Str(<<"x">>),
            SetFailing(mirrored, keyIn, Str(<<"x">>), NoPath),
            SetFailing(direct, keyIn, Str(<<"x">>), NoPath), {}, {})
    \/ \E path \in FailingPaths :
         Step("set failing", keyIn, path, Num(0),
              SetFailing(mirrored, keyIn, Num(0), path),
              SetFailing(direct, keyIn, Num(0), path), {}, {})

CallDeleteFailing ==
  \E keyIn \in KeyInputs, path \in FailingPaths \cup {NoPath} :
    Step("delete failing", keyIn, path, Undef,
         DeleteFailing(mirrored, keyIn, path), DeleteFailing(direct, keyIn, path), {}, {})

CallDeleteAll ==
  Step("deleteAll", Undef, NoPath, Undef, DeleteAll(mirrored), DeleteAll(direct), {}, {})

CallIndices ==
  Step("indices", Undef, NoPath, Undef,
       Outcome(mirrored, Undef, "none"), Outcome(direct, Undef, "none"),
       Indices(mirrored), Indices(direct))

\* The process ends and both instances are constructed again over their tables
Restart ==
  Step("new", Undef, NoPath, Undef,
       Outcome(Construct(mirrored), Undef, "none"),
       Outcome(Construct(direct), Undef, "none"), {}, {})

Next ==
  \/ CallGet
  \/ CallGetNoKey
  \/ CallSet
  \/ CallSetGot
  \/ CallEnsure
  \/ CallDelete
  \/ CallSetBadKey
  \/ CallEnsureBadKey
  \/ CallDeleteBadKey
  \/ CallEnsureNoDefault
  \/ CallSetFailing
  \/ CallDeleteFailing
  \/ CallDeleteAll
  \/ CallIndices
  \/ Restart

Spec == Init /\ [][Next]_vars

(***************************************************************************)
(* What the claims speak of.                                               *)
(***************************************************************************)
\* The property names that occur in the values and paths above
Names == {"a", "0", "1"}
\* Every path of one to three tokens
AllPaths ==
  {<<x>> : x \in Names} \cup {<<x, y>> : x \in Names, y \in Names}
    \cup {<<x, y, z>> : x \in Names, y \in Names, z \in Names}

\* path addresses a node of the tree v: every token is an own property of
\* the array or object reached so far
RECURSIVE HasNode(_, _)
HasNode(v, path) ==
  \/ path = <<>>
  \/ /\ IsObject(v)
     /\ Head(path) \in DOMAIN v.c
     /\ HasNode(v.c[Head(path)], Tail(path))

IsPrefix(p, q) == Len(p) <= Len(q) /\ SubSeq(q, 1, Len(p)) = p
\* Neither path lies on the way to the other
Apart(p, q) == ~IsPrefix(p, q) /\ ~IsPrefix(q, p)

\* The last call was op, returned in both instances, and had / had no path
Returned(op) == last.op = op /\ last.errM = "none" /\ last.errD = "none"
WithPath == last.path # NoPath
Whole == last.path = NoPath

\* The value at the last call's key before the call, in each instance
BeforeM == Get(pre.mirrored, last.key, NoPath)
BeforeD == Get(pre.direct, last.key, NoPath)

\* C1: with a Map, after every completed call the Map holds exactly the keys
\* that have a row, each with the value JSON.parse gives for the row: building
\* the Map again from the table (fetchEverything) yields the same Map.
C1_MirrorIsTheTable == FetchEverything(mirrored).map = mirrored.map

\* C2: the instance with a Map and the instance without return equal results
\* call by call (indices as sets of keys) and throw on the same calls.
C2_ModesAgree ==
  /\ last.retM = last.retD
  /\ last.errM = last.errD
  /\ last.idxM = last.idxD

\* C3: after set(K, V) without a path, get(K) returns V itself, whatever was
\* stored at K before, with and without a Map.
C3_SetThenGet ==
  (Returned("set") /\ Whole) =>
    /\ Get(mirrored, last.key, NoPath) = last.value
    /\ Get(direct, last.key, NoPath) = last.value

\* C3 witness: a set without a path has put a mapping where a sequence was.
C3_Witness ==
  /\ Returned("set") /\ Whole
  /\ last.value.t = "obj"
  /\ BeforeM.t = "arr" /\ BeforeD.t = "arr"
  /\ Get(direct, last.key, NoPath) = last.value

\* C4: after set(K, L, P) with a path, get(K, P) returns L, whatever was
\* stored at K before (nothing, null, a scalar, a sequence, a mapping).
C4_PathSetThenGet ==
  (Returned("set") /\ WithPath) =>
    /\ Get(mirrored, last.key, last.path) = last.value
    /\ Get(direct, last.key, last.path) = last.value

C6_EnsureKeepsExisting ==
  Returned("ensure") =>
    /\ ~IsNil(Get(pre.mirrored, last.key, last.path)) =>
         /\ last.retM = Get(pre.mirrored, last.key, last.path)
         /\ mirrored = pre.mirrored
    /\ ~IsNil(Get(pre.direct, last.key, last.path)) =>
         /\ last.retD = Get(pre.direct, last.key, last.path)
         /\ direct = pre.direct

\* C7: when nothing is stored at (K, P), ensure(K, D, P) returns D and
\* get(K, P) returns D right afterwards, whatever is stored at K.
C7_EnsureWritesDefault ==
  Returned("ensure") =>
    /\ Get(pre.mirrored, last.key, last.path).t = "undef" =>
         /\ last.retM = last.value
         /\ Get(mirrored, last.key, last.path) = last.value
    /\ Get(pre.direct, last.key, last.path).t = "undef" =>
         /\ last.retD = last.value
         /\ Get(direct, last.key, last.path) = last.value

\* C8: delete(K) without a path returns true exactly when K had an entry
\* (whatever its value); afterwards get(K) is absent and K is not in indices.
C8_DeleteTellsExistence ==
  (Returned("delete") /\ Whole) =>
    /\ last.retM = Bool(KeyToString(last.key) \in Indices(pre.mirrored))
    /\ last.retD = Bool(KeyToString(last.key) \in Indices(pre.direct))
    /\ Get(mirrored, last.key, NoPath) = Undef
    /\ Get(direct, last.key, NoPath) = Undef
    /\ KeyToString(last.key) \notin Indices(mirrored) \cup Indices(direct)

\* C9: delete(K, P) with a path returns true exactly when P addressed a node
\* of K's value before the call (stated for a key that has an entry).
C9_PathDeleteTellsExistence ==
  (Returned("delete") /\ WithPath) =>
    /\ KeyToString(last.key) \in Indices(pre.mirrored) =>
         last.retM = Bool(HasNode(BeforeM, last.path))
    /\ KeyToString(last.key) \in Indices(pre.direct) =>
         last.retD = Bool(HasNode(BeforeD, last.path))

\* A later element of the sequence that holds the node at p
LaterElement(p, q) ==
  /\ Len(q) >= Len(p)
  /\ Front(p) = SubSeq(q, 1, Len(p) - 1)
  /\ IsIndex(Last(p)) /\ IsIndex(q[Len(p)])
  /\ IndexOf(q[Len(p)]) > IndexOf(Last(p))

\* C10: delete(K, P) of a node of K's value leaves get(K, P) absent and every
\* node apart from P (later elements of P's own sequence aside) as it was.
C10_PathDeleteRemovesOnlyP ==
  (Returned("delete") /\ WithPath) =>
    /\ HasNode(BeforeM, last.path) =>
         /\ Get(mirrored, last.key, last.path) = Undef
         /\ \A q \in AllPaths :
              (Apart(q, last.path) /\ ~LaterElement(last.path, q) /\ HasNode(BeforeM, q)) =>
                Get(mirrored, last.key, q) = Get(pre.mirrored, last.key, q)
    /\ HasNode(BeforeD, last.path) =>
         /\ Get(direct, last.key, last.path) = Undef
         /\ \A q \in AllPaths :
              (Apart(q, last.path) /\ ~LaterElement(last.path, q) /\ HasNode(BeforeD, q)) =>
                Get(direct, last.key, q) = Get(pre.direct, last.key, q)

\* The sequence seq with the element at index i spliced out: one shorter,
\* every later element one index down
Spliced(seq, i) ==
  Arr(seq.n - 1,
      [k \in {NameOfIndex(j) : j \in {x \in 0..(seq.n - 2) :
                 NameOfIndex(IF x < i THEN x ELSE x + 1) \in DOMAIN seq.c}} |->
         seq.c[NameOfIndex(IF IndexOf(k) < i THEN IndexOf(k) ELSE IndexOf(k) + 1)]])

\* The last accessor of the last call's path addresses an element of the
\* sequence `parent`
AtElementOf(parent) ==
  /\ parent.t = "arr"
  /\ IsIndex(Last(last.path))
  /\ Last(last.path) \in DOMAIN parent.c

\* C11: when P's last accessor addresses an element of a sequence,
\* delete(K, P) splices it out: afterwards the sequence is one element
\* shorter and the later elements are one index down, with and without a Map.
C11_PathDeleteSplices ==
  (Returned("delete") /\ WithPath) =>
    /\ AtElementOf(Get(pre.mirrored, last.key, Front(last.path))) =>
         Get(mirrored, last.key, Front(last.path)) =
           Spliced(Get(pre.mirrored, last.key, Front(last.path)), IndexOf(Last(last.path)))
    /\ AtElementOf(Get(pre.direct, last.key, Front(last.path))) =>
         Get(direct, last.key, Front(last.path)) =
           Spliced(Get(pre.direct, last.key, Front(last.path)), IndexOf(Last(last.path)))

\* C12: after deleteAll(), with and without a Map, indices is empty, get(K)
\* is absent for every key that had an entry before the call, and the table
\* and the Map hold nothing.
C12_DeleteAllEmpties ==
  Returned("deleteAll") =>
    /\ Indices(mirrored) = {} /\ Indices(direct) = {}
    /\ \A key \in Indices(pre.mirrored) \cup Indices(pre.direct) :
         /\ Get(mirrored, Str(key), NoPath) = Undef
         /\ Get(direct, Str(key), NoPath) = Undef
    /\ mirrored.db = NoEntries /\ mirrored.map = NoEntries
    /\ direct.db = NoEntries

\* C12 witness: deleteAll has run on instances that both held an entry, and
\* get of that key is now absent in both.
C12_Witness ==
  /\ Returned("deleteAll")
  /\ \E key \in Indices(pre.mirrored) \cap Indices(pre.direct) :
       /\ Get(pre.mirrored, Str(key), NoPath) # Undef
       /\ Get(mirrored, Str(key), NoPath) = Undef
       /\ Get(direct, Str(key), NoPath) = Undef

\* The last call was given a key that is neither text nor number
BadKey == last.key.t \notin {"str", "num"}

\* C13: set with a key that is neither text nor number throws the
\* invalid-key error and changes nothing, table and Map being afterwards as
\* they were; an ensure or a delete with a path that reaches set with such a
\* key throws it too, and no call with such a key that throws changes anything.
C13_InvalidKeyBeforeMutation ==
  /\ (last.op = "set" /\ BadKey) =>
       /\ last.errM = "invalid-key" /\ last.errD = "invalid-key"
       /\ mirrored = pre.mirrored /\ direct = pre.direct
  /\ ((last.op = "ensure" \/ (last.op = "delete" /\ WithPath)) /\ BadKey) =>
       /\ GetThrows(pre.mirrored, last.key) \/ last.errM = "invalid-key"
       /\ GetThrows(pre.direct, last.key) \/ last.errD = "invalid-key"
       /\ mirrored = pre.mirrored /\ direct = pre.direct

\* C13 witness: an ensure with a path and the key null has thrown the
\* invalid-key error in both instances, which held entries.
C13_Witness ==
  /\ last.op = "ensure" /\ WithPath /\ last.key = Null
  /\ last.errM = "invalid-key" /\ last.errD = "invalid-key"
  /\ Indices(mirrored) # {} /\ Indices(direct) # {}

\* C14: ensure(K, D, P) with D null or undefined throws the missing-default
\* error and writes nothing, whatever is stored at K: table and Map are
\* afterwards as they were.
C14_MissingDefaultNoWrite ==
  (last.op = "ensure" /\ IsNil(last.value)) =>
    /\ last.errM = "missing-default" /\ last.errD = "missing-default"
    /\ mirrored = pre.mirrored /\ direct = pre.direct

\* C14 witness: an ensure without a default has thrown on a key at which
\* nothing that counts as a value was stored (null, or nothing at the path),
\* where a default would have been written.
C14_Witness ==
  /\ last.op = "ensure" /\ IsNil(last.value)
  /\ last.errM = "missing-default" /\ last.errD = "missing-default"
  /\ KeyToString(last.key) \in Indices(pre.mirrored) \cap Indices(pre.direct)
  /\ IsNil(Get(pre.mirrored, last.key, last.path))
  /\ IsNil(Get(pre.direct, last.key, last.path))

\* Walking path through v meets a node that is undefined, null or a scalar
\* while accessors remain
RECURSIVE MeetsNoContainer(_, _)
MeetsNoContainer(v, path) ==
  /\ path # <<>>
  /\ \/ ~IsObject(v)
     \/ Head(path) \notin DOMAIN v.c /\ Tail(path) # <<>>
     \/ Head(path) \in DOMAIN v.c /\ MeetsNoContainer(v.c[Head(path)], Tail(path))

\* C15: get never throws and never writes; get(K, P) returns undefined when
\* K has no entry or when walking P meets an undefined, null or scalar node
\* while accessors remain, and get with the key null or undefined returns
\* undefined.
C15_GetMissIsAbsent ==
  last.op = "get" =>
    /\ last.errM = "none" /\ last.errD = "none"
    /\ mirrored = pre.mirrored /\ direct = pre.direct
    /\ IsNil(last.key) => (last.retM = Undef /\ last.retD = Undef)
    /\ ~IsNil(last.key) =>
         /\ (KeyToString(last.key) \notin Indices(pre.mirrored)
               \/ MeetsNoContainer(BeforeM, last.path)) => last.retM = Undef
         /\ (KeyToString(last.key) \notin Indices(pre.direct)
               \/ MeetsNoContainer(BeforeD, last.path)) => last.retD = Undef

\* The keys that have an entry after the last call, given those that had one
\* before it and the error it threw: a set or an ensure that returns adds
\* its key, a delete without a path removes its key, deleteAll removes all,
\* and no other call changes the keys
EntriesAfter(before, err) ==
  CASE err # "none" -> before
    [] last.op \in {"set", "setgot", "ensure"} -> before \cup {KeyToString(last.key)}
    [] last.op = "delete" /\ Whole -> before \ {KeyToString(last.key)}
    [] last.op = "deleteAll" -> {}
    [] OTHER -> before

\* The texts of the keys given by the caller
KeyTexts == {KeyToString(keyIn) : keyIn \in KeyInputs}

\* C16: with and without a Map, indices is exactly the set of keys that have
\* been set or ensured and not removed since by delete(K) or deleteAll, and
\* get(K) is undefined for every key that is not in indices.
C16_IndicesAreTheEntries ==
  /\ Indices(mirrored) = EntriesAfter(Indices(pre.mirrored), last.errM)
  /\ Indices(direct) = EntriesAfter(Indices(pre.direct), last.errD)
  /\ \A key \in KeyTexts :
       /\ key \notin Indices(mirrored) => Get(mirrored, Str(key), NoPath) = Undef
       /\ key \notin Indices(direct) => Get(direct, Str(key), NoPath) = Undef

\* The text key that a number key is converted to
TextKey(keyIn) == Str(NumberToString(keyIn.n))

\* What the last call would have done and returned in the instance `before`
\* had it been given the key keyIn
SameCallWith(before, keyIn) ==
  CASE last.op = "get" -> Outcome(before, Get(before, keyIn, last.path), "none")
    [] last.op = "set" -> Set(before, keyIn, last.value, last.path, NoKey)
    [] last.op = "ensure" -> Ensure(before, keyIn, last.value, last.path)
    [] last.op = "delete" -> Delete(before, keyIn, last.path)

\* C17: a number key n and the text of n address the same entry: a get, set,
\* ensure or delete given n does and returns what the same call given the
\* text of n does; after set(n, V), get of the text of n returns V; and
\* indices lists text keys only.
C17_NumberKeyIsItsText ==
  /\ (last.op \in {"get", "set", "ensure", "delete"} /\ last.key.t = "num") =>
       /\ SameCallWith(pre.mirrored, TextKey(last.key)) =
            Outcome(mirrored, last.retM, last.errM)
       /\ SameCallWith(pre.direct, TextKey(last.key)) =
            Outcome(direct, last.retD, last.errD)
       /\ (Returned("set") /\ Whole) =>
            /\ Get(mirrored, TextKey(last.key), NoPath) = last.value
            /\ Get(direct, TextKey(last.key), NoPath) = last.value
  /\ Indices(mirrored) \cup Indices(direct) \subseteq {keyIn.s : keyIn \in {k \in KeyInputs : k.t = "str"}}

\* C17 witness: a set given a number key has changed what get of the text
\* of the number returns, in both instances.
C17_Witness ==
  /\ Returned("set") /\ Whole /\ last.key.t = "num"
  /\ Get(mirrored, TextKey(last.key), NoPath) = last.value
  /\ Get(direct, TextKey(last.key), NoPath) = last.value
  /\ Get(pre.mirrored, TextKey(last.key), NoPath) # last.value
  /\ Get(pre.direct, TextKey(last.key), NoPath) # last.value

\* v is a mapping without the member name, or nothing at all
LacksMember(v, name) == IsNil(v) \/ (v.t = "obj" /\ name \notin DOMAIN v.c)

\* What set(K, L, P) with the two-token path P = name.index must leave at
\* name when it had to make the node: a sequence holding L at the index,
\* the one-element sequence [L] when the index is 0
MadeSequence(made) ==
  /\ made.t = "arr"
  /\ PropGet(made, last.path[2]) = last.value
  /\ last.path[2] = "0" => made = Arr(1, ("0" :> last.value))

\* What set(K, L, P) must leave of a mapping node addressed by all of P but
\* its last accessor: a mapping still, holding L under the accessor's name
StillMapping(node) ==
  /\ node.t = "obj"
  /\ Last(last.path) \in DOMAIN node.c
  /\ node.c[Last(last.path)] = last.value

\* C18: set(K, L, 'name.0') on a value without the member name makes
\* get(K, 'name') the one-element sequence [L] (a sequence is made for an
\* index accessor); an all-digits accessor applied to a node that is a
\* mapping writes the member of that name and leaves the node a mapping.
C18_AccessorsFollowNodeKind ==
  (Returned("set") /\ WithPath) =>
    /\ (Len(last.path) = 2 /\ IsIndex(last.path[2])) =>
         /\ LacksMember(BeforeM, last.path[1]) =>
              MadeSequence(Get(mirrored, last.key, <<last.path[1]>>))
         /\ LacksMember(BeforeD, last.path[1]) =>
              MadeSequence(Get(direct, last.key, <<last.path[1]>>))
    /\ IsIndex(Last(last.path)) =>
         /\ Get(pre.mirrored, last.key, Front(last.path)).t = "obj" =>
              StillMapping(Get(mirrored, last.key, Front(last.path)))
         /\ Get(pre.direct, last.key, Front(last.path)).t = "obj" =>
              StillMapping(Get(direct, last.key, Front(last.path)))

\* C18 witness: set(K, L, 'a.0') on a mapping stored at K that had no
\* member a has made get(K, 'a') the sequence [L] in both instances.
C18_Witness ==
  /\ Returned("set") /\ last.path = <<"a", "0">>
  /\ BeforeM.t = "obj" /\ "a" \notin DOMAIN BeforeM.c
  /\ BeforeD.t = "obj" /\ "a" \notin DOMAIN BeforeD.c
  /\ Get(mirrored, last.key, <<"a">>) = Arr(1, ("0" :> last.value))
  /\ Get(direct, last.key, <<"a">>) = Arr(1, ("0" :> last.value))

\* The value `after` holds nothing but what lies on the way to path
OnlyContentAt(after, path) ==
  \A q \in AllPaths : HasNode(after, q) => IsPrefix(q, path)

\* C19: ensure(K, D, P) with a path on a key that has no entry makes a
\* mapping at K: afterwards get(K) is a mapping whose only content is D at
\* P, get(K, P) returns D and K is in indices, with and without a Map.
C19_EnsureEstablishesMapping ==
  (Returned("ensure") /\ WithPath) =>
    /\ KeyToString(last.key) \notin Indices(pre.mirrored) =>
         /\ Get(mirrored, last.key, NoPath).t = "obj"
         /\ OnlyContentAt(Get(mirrored, last.key, NoPath), last.path)
         /\ Get(mirrored, last.key, last.path) = last.value
         /\ KeyToString(last.key) \in Indices(mirrored)
    /\ KeyToString(last.key) \notin Indices(pre.direct) =>
         /\ Get(direct, last.key, NoPath).t = "obj"
         /\ OnlyContentAt(Get(direct, last.key, NoPath), last.path)
         /\ Get(direct, last.key, last.path) = last.value
         /\ KeyToString(last.key) \in Indices(direct)

\* C20: the earlier ensure, which first calls ensure(K, {}), and the ensure
\* of index.ts return the same value and leave the same value stored at K,
\* for every value stored at K before, every default that is not null and
\* every path.
C20_EnsureVariantsAgree ==
  (last.op = "ensure" /\ ~BadKey /\ ~IsNil(last.value)) =>
    /\ variant.m.ret = last.retM /\ variant.m.err = last.errM
    /\ Get(variant.m.inst, last.key, NoPath) = Get(mirrored, last.key, NoPath)
    /\ variant.m.inst.db = mirrored.db
    /\ variant.d.ret = last.retD /\ variant.d.err = last.errD
    /\ Get(variant.d.inst, last.key, NoPath) = Get(direct, last.key, NoPath)
    /\ variant.d.inst.db = direct.db

\* The last call was a set, an ensure or a delete given a text or number key
WritesAt == last.op \in {"set", "setgot", "ensure", "delete"} /\ ~BadKey

\* Every read of the key `other` gives in `after` what it gave in `before`
SameReads(before, after, other) ==
  \A q \in AllPaths \cup {NoPath} :
    Get(after, Str(other), q) = Get(before, Str(other), q)

\* C21: a set, ensure or delete on the key K, with or without a path, leaves
\* get(K') and get(K', Q) for every path Q as they were, for every key K'
\* whose text differs from that of K, whatever the calls made before (the
\* same value stored under both keys included), with and without a Map.
C21_OtherKeysUntouched ==
  WritesAt =>
    \A other \in KeyTexts \ {KeyToString(last.key)} :
      /\ SameReads(pre.mirrored, mirrored, other)
      /\ SameReads(pre.direct, direct, other)

\* The last call met a failing statement of the storage engine
StorageFailed == last.op \in {"set failing", "delete failing"}

\* C22: with a Map, when the statement of a set or a delete (with or
\* without a path) throws, the error reaches the caller and the Map holds
\* for every key what it held before the call, as does the table: the Map
\* is not ahead of the table.
C22_MirrorNotAheadOnFailure ==
  StorageFailed =>
    /\ last.errM = "storage-failure"
    /\ mirrored.map = pre.mirrored.map
    /\ mirrored.db = pre.mirrored.db

\* C23: delete(K, P) with a path on a key that has no entry creates nothing:
\* it returns false, K is not in indices afterwards, get(K) is still
\* undefined, and neither the table nor the Map has gained a row or a key.
C23_PathDeleteOnMissingKey ==
  (last.op = "delete" /\ WithPath /\ ~BadKey) =>
    /\ KeyToString(last.key) \notin Indices(pre.mirrored) =>
         /\ last.errM = "none" /\ last.retM = Bool(FALSE)
         /\ KeyToString(last.key) \notin Indices(mirrored)
         /\ Get(mirrored, last.key, NoPath) = Undef
         /\ DOMAIN mirrored.db = DOMAIN pre.mirrored.db
         /\ DOMAIN mirrored.map = DOMAIN pre.mirrored.map
    /\ KeyToString(last.key) \notin Indices(pre.direct) =>
         /\ last.errD = "none" /\ last.retD = Bool(FALSE)
         /\ KeyToString(last.key) \notin Indices(direct)
         /\ Get(direct, last.key, NoPath) = Undef
         /\ DOMAIN direct.db = DOMAIN pre.direct.db

====
